---------------------------- MODULE Spec2Model ----------------------------
(***************************************************************************)
(* CompareTimes (src/src/main.rs): five strategies that intersect two      *)
(* unsorted collections, the runner that times each of them in both        *)
(* argument orders on a thread pool, and the reporter and validator that   *)
(* rank the measurements and compare their results.                        *)
(*                                                                         *)
(* Four specifications share the variables:                                *)
(*   SpecIntersect  one call of Intersect::intersect on drawn arguments    *)
(*   SpecRun        main with the parallel measurement tasks interleaved   *)
(*   Spec           main with the parallel collect taken as one step and   *)
(*                  the measured durations varied                          *)
(*   SpecReport     sort, print_table, print_graph and the equality check  *)
(*                  on drawn measurement lists                             *)
(***************************************************************************)
EXTENDS Integers, Sequences, FiniteSets, TLC

VARIABLES
    a,          \* main: the first generated collection (main.rs:185)
    b,          \* main: the second generated collection (main.rs:189)
    pc,         \* main's position
    panic,      \* "none", or why the process panicked
    taskState,  \* per parallel task: "pending", "running" or "done"
    slot,       \* per parallel task: the Product it produced, if any
    products,   \* main: the collected (then sorted) Vec<Product>
    table,      \* the rows print_table printed
    graph,      \* what print_graph read and printed
    equal,      \* the printed "all values are equal" value
    call        \* SpecIntersect: one call of intersect and its result

vars == <<a, b, pc, panic, taskState, slot, products, table, graph, equal, call>>

(***************************************************************************)
(* Bounds                                                                  *)
(***************************************************************************)
MaxLen == 3          \* SpecIntersect: longest argument
MaxVal == 2          \* SpecIntersect: elements are 1..MaxVal
MainMaxLen == 2      \* Spec: longest generated collection
MainMaxVal == 2      \* Spec: generated elements are 1..MainMaxVal
MainMaxTime == 1     \* Spec: measured durations are 0..MainMaxTime ns
RunMaxLen == 2       \* SpecRun: longest generated collection
NumThreads == 2      \* SpecRun: worker threads of the rayon pool
MaxProducts == 3     \* SpecReport: longest measurement list
MaxDurSteps == 5     \* SpecReport: durations are 0 and 100..100*MaxDurSteps ns

Range(s) == {s[i] : i \in DOMAIN s}

Collections(maxLen, maxVal) == UNION {[1..n -> 1..maxVal] : n \in 0..maxLen}

(***************************************************************************)
(* The strategies (main.rs:14-89)                                          *)
(***************************************************************************)
Methods == <<"Squared", "SquaredBreak", "BTree", "Binary", "Hash">>

\* A collect that appends the chunks of the parallel iterator back to front.
RECURSIVE filter_collect_reversed(_, _, _)
filter_collect_reversed(big, keep, i) ==
    IF i > Len(big) THEN <<>>
    ELSE filter_collect_reversed(big, keep, i + 1)
         \o (IF keep[i] THEN <<big[i]>> ELSE <<>>)

\* big.par_iter().filter(keep).copied().collect(): rayon's collect into a Vec
\* keeps the order of the source slice.  keep[i] is the filter's verdict on
\* big[i].
RECURSIVE filter_collect(_, _, _)
filter_collect(big, keep, i) ==
    IF i > Len(big) THEN <<>>
    ELSE (IF keep[i] THEN <<big[i]>> ELSE <<>>) \o filter_collect(big, keep, i + 1)

\* small.iter().zip(repeat(i)).filter(|(i, j)| *i == *j).map(|(i, _)| *i):
\* the inner scan of Squared for one element i of big; the emitted value is
\* the element of small.
RECURSIVE zip_filter_map(_, _)
zip_filter_map(small, i) ==
    IF small = <<>> THEN <<>>
    ELSE (IF Head(small) = i THEN <<Head(small)>> ELSE <<>>)
         \o zip_filter_map(Tail(small), i)

Squared_intersect_nodup(big, small) ==
    filter_collect(big, [i \in DOMAIN big |-> zip_filter_map(small, big[i]) # <<>>], 1)

RECURSIVE Squared_intersect(_, _)
Squared_intersect(big, small) ==
    IF big = <<>> THEN <<>>
    ELSE zip_filter_map(small, Head(big)) \o Squared_intersect(Tail(big), small)

\* small.par_iter().find_any(|j| j == i): the positions it may return.
find_any(small, i) == {j \in DOMAIN small : small[j] = i}

SquaredBreak_intersect(big, small) ==
    filter_collect(big, [i \in DOMAIN big |-> find_any(small, big[i]) # {}], 1)

\* BTreeSet::from_iter(small): the set of its values.
BTreeSet_from_iter(small) == Range(small)

BTree_intersect(big, small) ==
    LET set == BTreeSet_from_iter(small)
    IN  filter_collect(big, [i \in DOMAIN big |-> big[i] \in set], 1)

\* small.sort(): ascending.
RECURSIVE insert_sorted(_, _)
insert_sorted(s, x) ==
    IF s = <<>> THEN <<x>>
    ELSE IF x <= Head(s) THEN <<x>> \o s
    ELSE <<Head(s)>> \o insert_sorted(Tail(s), x)

RECURSIVE sort(_)
sort(s) == IF s = <<>> THEN <<>> ELSE insert_sorted(sort(Tail(s)), Head(s))

\* slice::binary_search on the half-open window lo..hi (0-based, as in Rust):
\* TRUE when it returns Ok.
RECURSIVE binary_search_from(_, _, _, _)
binary_search_from(s, x, lo, hi) ==
    IF lo >= hi THEN FALSE
    ELSE LET mid == lo + ((hi - lo) \div 2)
         IN  IF s[mid + 1] = x THEN TRUE
             ELSE IF s[mid + 1] < x THEN binary_search_from(s, x, mid + 1, hi)
             ELSE binary_search_from(s, x, lo, mid)

binary_search_skip_last(s, x) == binary_search_from(s, x, 0, Len(s) - 1)

binary_search(s, x) == binary_search_from(s, x, 0, Len(s))

Binary_intersect(big, small) ==
    LET sorted == sort(small)
    IN  filter_collect(big, [i \in DOMAIN big |-> binary_search(sorted, big[i])], 1)

\* small.iter().copied().collect::<HashSet<usize>>()
HashSet_collect(small) == Range(small)

Hash_intersect(big, small) ==
    LET set == HashSet_collect(small)
    IN  filter_collect(big, [i \in DOMAIN big |-> big[i] \in set], 1)

\* method.intersect(big, small) through the trait object.
intersect(method, big, small) ==
    CASE method = "Squared"      -> Squared_intersect(big, small)
      [] method = "SquaredBreak" -> SquaredBreak_intersect(big, small)
      [] method = "BTree"        -> BTree_intersect(big, small)
      [] method = "Binary"       -> Binary_intersect(big, small)
      [] method = "Hash"         -> Hash_intersect(big, small)

(***************************************************************************)
(* Product and test_method (main.rs:25-35, 91-97)                          *)
(***************************************************************************)
Product(name, time, result) == [name |-> name, time |-> time, result |-> result]

\* test_method with the clock's two readings end - start = delta >= 0:
\* duration_since returned Ok(delta).
test_method(method, x, y, appendage, delta) ==
    Product(method \o appendage, delta, intersect(method, x, y))

(***************************************************************************)
(* The reporter (main.rs:99-174, 213)                                      *)
(***************************************************************************)
\* products.sort_by(|a, b| b.time.cmp(&a.time)): stable, slowest first.
RECURSIVE sort_by_insert(_, _)
sort_by_insert(sorted, p) ==
    IF sorted = <<>> THEN <<p>>
    ELSE IF Head(sorted).time >= p.time
         THEN <<Head(sorted)>> \o sort_by_insert(Tail(sorted), p)
         ELSE <<p>> \o sorted

RECURSIVE sort_by_fold(_, _)
sort_by_fold(sorted, rest) ==
    IF rest = <<>> THEN sorted
    ELSE sort_by_fold(sort_by_insert(sorted, Head(rest)), Tail(rest))

sort_by(ps) == sort_by_fold(<<>>, ps)

\* n / d rounded to the nearest integer, for d > 0: the digits "{:.2}" keeps
\* of a quotient scaled by 100.  The durations of the model never put a
\* quotient on a rounding tie, where the f64's own error would decide.
RoundDiv(n, d) == ((2 * n) + d) \div (2 * d)

Dash == [kind |-> "-", value |-> 0]

\* format!("{:.2}x", n as f64 / d as f64): hundredths, or inf / NaN when the
\* divisor is zero.
format_ratio(n, d) ==
    IF d = 0 THEN [kind |-> IF n = 0 THEN "NaN" ELSE "inf", value |-> 0]
    ELSE [kind |-> "x", value |-> RoundDiv(100 * n, d)]

\* format!("{:.2}%", n as f64 / d as f64 * 100.0): hundredths of a percent.
format_percent(n, d) ==
    IF d = 0 THEN [kind |-> IF n = 0 THEN "NaN" ELSE "inf", value |-> 0]
    ELSE [kind |-> "%", value |-> RoundDiv(10000 * n, d)]

\* format!("{:?}", duration) of a Duration of ns nanoseconds: the unit and
\* the integer and fractional parts that Debug prints.
format_duration(ns) ==
    IF ns >= 1000000000
    THEN [int |-> ns \div 1000000000, frac |-> ns % 1000000000, unit |-> "s"]
    ELSE IF ns >= 1000000
    THEN [int |-> ns \div 1000000, frac |-> ns % 1000000, unit |-> "ms"]
    ELSE IF ns >= 1000
    THEN [int |-> ns \div 1000, frac |-> ns % 1000, unit |-> "us"]
    ELSE [int |-> ns, frac |-> 0, unit |-> "ns"]

RECURSIVE fold_sum(_)
fold_sum(ps) == IF ps = <<>> THEN 0 ELSE Head(ps).time + fold_sum(Tail(ps))

\* Duration - Duration panics when the result would be negative.
sub_underflows(ps) ==
    \/ \E i \in 1..(Len(ps) - 1) : ps[i].time < ps[i + 1].time
    \/ ps[1].time < ps[Len(ps)].time

first_row(ps) ==
    [name |-> ps[1].name, time |-> format_duration(ps[1].time),
     faster |-> Dash, diff |-> Dash, percent |-> Dash, vs |-> "-"]

window_row_vs_first(ps, i) ==
    [name |-> ps[i].name, time |-> format_duration(ps[i].time),
     faster |-> format_ratio(ps[1].time, ps[i].time),
     diff |-> [kind |-> "d", value |-> ps[1].time - ps[i].time],
     percent |-> format_percent(ps[i].time, ps[1].time),
     vs |-> ps[1].name]

\* The row of products.windows(2) whose values[1] is ps[i].
window_row(ps, i) ==
    [name |-> ps[i].name, time |-> format_duration(ps[i].time),
     faster |-> format_ratio(ps[i - 1].time, ps[i].time),
     diff |-> [kind |-> "d", value |-> ps[i - 1].time - ps[i].time],
     percent |-> format_percent(ps[i].time, ps[i - 1].time),
     vs |-> ps[i - 1].name]

total_row(ps) ==
    LET first == ps[1]
        last == ps[Len(ps)]
    IN  [name |-> "Total", time |-> format_duration(fold_sum(ps)),
         faster |-> format_ratio(first.time, last.time),
         diff |-> [kind |-> "d", value |-> first.time - last.time],
         percent |-> format_percent(last.time, first.time),
         vs |-> "-"]

\* The table print_table prints, without its header row.
print_table(ps) ==
    [printed |-> TRUE,
     rows |-> [i \in 1..Len(ps) |-> IF i = 1 THEN first_row(ps) ELSE window_row(ps, i)],
     total |-> total_row(ps)]

Max(S) == CHOOSE x \in S : \A y \in S : y <= x

max_name_len(ps) == Max({Len(ps[i].name) : i \in DOMAIN ps})

\* What size() may return: Err, or Ok with a column count.
TermCols == {1, 28, 29, 80}
TermSize == {-1} \cup TermCols

\* The length of the slowest product's bar: (ln t - min) * base rounded,
\* which is width unless the logarithms cancel (all durations equal) or
\* ln 0 = -inf makes the product NaN, which rounds to 0.
longest_bar(ps, width) ==
    IF ps[Len(ps)].time = 0 \/ ps[1].time = ps[Len(ps)].time THEN 0 ELSE width

\* all(|values| values[0].result == values[1].result) over windows(2):
\* Vec equality.
all_equal_first_pair(ps) == Len(ps) < 2 \/ ps[1].result = ps[2].result

all_equal(ps) == \A i \in 1..(Len(ps) - 1) : ps[i].result = ps[i + 1].result

(***************************************************************************)
(* Values the variables hold when a specification does not use them        *)
(***************************************************************************)
NoCall == [method |-> "none", big |-> <<>>, small |-> <<>>,
           returned |-> FALSE, result |-> <<>>]
NoTable == [printed |-> FALSE, rows |-> <<>>, total |-> <<>>]
NoGraph == [printed |-> FALSE, cols |-> -1, width |-> 0, wrapped |-> FALSE,
            longest |-> 0]
Tasks == 1..(2 * Len(Methods))

(***************************************************************************)
(* main (main.rs:176-221)                                                  *)
(***************************************************************************)
Deref(ref) == IF ref = "a" THEN a ELSE b

\* std::cmp::max_by_key(v1, v2, |x| x.len()): v2 unless v1 is longer.
max_by_key(v1, v2) == IF Len(Deref(v1)) > Len(Deref(v2)) THEN v1 ELSE v2

\* std::cmp::min_by_key(v1, v2, |x| x.len()): v1 unless v2 is shorter.
min_by_key(v1, v2) == IF Len(Deref(v2)) < Len(Deref(v1)) THEN v2 ELSE v1

big == max_by_key("a", "b")
small == min_by_key("a", "b")

\* The items of methods.par_iter().flat_map(..), in the order collect keeps:
\* task 2k-1 is (method k, big, small, ""), task 2k is
\* (method k, small, big, " switched order").
task_item(t) ==
    LET method == Methods[(t + 1) \div 2]
    IN  IF t % 2 = 1
        THEN [method |-> method, x |-> big, y |-> small, appendage |-> ""]
        ELSE [method |-> method, x |-> small, y |-> big,
              appendage |-> " switched order"]

run_task(t, delta) ==
    LET item == task_item(t)
    IN  test_method(item.method, Deref(item.x), Deref(item.y), item.appendage, delta)

Running == {t \in Tasks : taskState[t] = "running"}

\* A worker thread takes a task that no thread has taken.
StartTask(t) ==
    /\ pc = "collect"
    /\ taskState[t] = "pending"
    /\ Cardinality(Running) < NumThreads
    /\ taskState' = [taskState EXCEPT ![t] = "running"]
    /\ UNCHANGED <<a, b, pc, panic, slot, products, table, graph, equal, call>>

\* What SystemTime::now() - start may be when the task ends: SystemTime is
\* not monotonic, so the difference may be negative.
RunClockDeltas == {-1, 1}

\* test_method returns, or duration_since(start).unwrap() panics; rayon
\* rethrows a task's panic in main, which dies without a report.
FinishTask(t) ==
    /\ pc = "collect"
    /\ taskState[t] = "running"
    /\ \E delta \in RunClockDeltas :
          IF delta < 0
          THEN /\ pc' = "panicked"
               /\ panic' = "clock"
               /\ UNCHANGED <<taskState, slot>>
          ELSE /\ taskState' = [taskState EXCEPT ![t] = "done"]
               /\ slot' = [slot EXCEPT ![t] = <<run_task(t, delta)>>]
               /\ UNCHANGED <<pc, panic>>
    /\ UNCHANGED <<a, b, products, table, graph, equal, call>>

RECURSIVE concat_slots(_)
concat_slots(t) == IF t > 2 * Len(Methods) THEN <<>> ELSE slot[t] \o concat_slots(t + 1)

no_task_pending == \A t \in Tasks : taskState[t] # "pending"

\* collect() returns once every task of the parallel iterator has ended.
all_tasks_ended == \A t \in Tasks : taskState[t] = "done"

Join ==
    /\ pc = "collect"
    /\ all_tasks_ended
    /\ products' = concat_slots(1)
    /\ pc' = "sort"
    /\ UNCHANGED <<a, b, panic, taskState, slot, table, graph, equal, call>>

\* The whole of lines 202-211 as one step: the tasks share nothing but the
\* read-only inputs, and collect keeps the items' order.
Measure ==
    /\ pc = "collect"
    /\ \E delta \in [Tasks -> 0..MainMaxTime] :
          /\ slot' = [t \in Tasks |-> <<run_task(t, delta[t])>>]
          /\ products' = [t \in Tasks |-> run_task(t, delta[t])]
    /\ taskState' = [t \in Tasks |-> "done"]
    /\ pc' = "sort"
    /\ UNCHANGED <<a, b, panic, table, graph, equal, call>>

\* ... or one of the tasks reads a clock that went backwards.
MeasureClockError ==
    /\ pc = "collect"
    /\ pc' = "panicked"
    /\ panic' = "clock"
    /\ UNCHANGED <<a, b, taskState, slot, products, table, graph, equal, call>>

SortProducts ==
    /\ pc = "sort"
    /\ products' = sort_by(products)
    /\ pc' = "table"
    /\ UNCHANGED <<a, b, panic, taskState, slot, table, graph, equal, call>>

PrintTable ==
    /\ pc = "table"
    /\ IF sub_underflows(products)
       THEN /\ pc' = "panicked"
            /\ panic' = "duration"
            /\ UNCHANGED table
       ELSE /\ table' = print_table(products)
            /\ pc' = "graph"
            /\ UNCHANGED panic
    /\ UNCHANGED <<a, b, taskState, slot, products, graph, equal, call>>

\* size().unwrap() panics on Err.  cols - max_name_len - 2 in usize panics
\* when it underflows in a build with overflow checks and wraps to
\* 2^64 + (cols - max_name_len - 2) in one without; "*".repeat of a bar that
\* long panics with a capacity overflow.
PrintGraph ==
    /\ pc = "graph"
    /\ \E sz \in TermSize, overflow_checks \in BOOLEAN :
          LET raw == sz - max_name_len(products) - 2
              bar == longest_bar(products, raw)
          IN  IF sz = -1
              THEN /\ pc' = "panicked" /\ panic' = "size"
                   /\ UNCHANGED graph
              ELSE IF raw < 0 /\ overflow_checks
              THEN /\ pc' = "panicked" /\ panic' = "overflow"
                   /\ graph' = [graph EXCEPT !.cols = sz]
              ELSE IF raw < 0 /\ bar # 0
              THEN /\ pc' = "panicked" /\ panic' = "capacity"
                   /\ graph' = [graph EXCEPT !.cols = sz, !.width = raw,
                                             !.wrapped = TRUE]
              ELSE /\ pc' = "validate"
                   /\ graph' = [printed |-> TRUE, cols |-> sz, width |-> raw,
                                wrapped |-> raw < 0, longest |-> bar]
                   /\ UNCHANGED panic
    /\ UNCHANGED <<a, b, taskState, slot, products, table, equal, call>>

Validate ==
    /\ pc = "validate"
    /\ equal' = all_equal(products)
    /\ pc' = "done"
    /\ UNCHANGED <<a, b, panic, taskState, slot, products, table, graph, call>>

Report == SortProducts \/ PrintTable \/ PrintGraph \/ Validate

InitMain(as, bs) ==
    /\ a \in as /\ b \in bs
    /\ pc = "collect" /\ panic = "none"
    /\ taskState = [t \in Tasks |-> "pending"]
    /\ slot = [t \in Tasks |-> <<>>]
    /\ products = <<>>
    /\ table = NoTable /\ graph = NoGraph /\ equal = "unset"
    /\ call = NoCall

\* main, the parallel collect as one step.
Init == InitMain(Collections(MainMaxLen, MainMaxVal),
                Collections(MainMaxLen, MainMaxVal))

Next == Measure \/ MeasureClockError \/ Report

Spec == Init /\ [][Next]_vars

\* main, the measurement tasks interleaved on NumThreads worker threads.
\* The contents play no part in the scheduling: a is 1, 1, .. and b is
\* 2, 1, 2, .. of every length up to RunMaxLen, so that a and b of one length
\* differ and their two intersections differ with the argument order.
InitRun == InitMain({[i \in 1..n |-> 1] : n \in 0..RunMaxLen},
                   {[i \in 1..n |-> 1 + (i % 2)] : n \in 0..RunMaxLen})

NextRun ==
    \/ \E t \in Tasks : StartTask(t)
    \/ \E t \in Tasks : FinishTask(t)
    \/ Join
    \/ Report

SpecRun == InitRun /\ [][NextRun]_vars

\* The reporter and validator on drawn measurement lists.
ReportNames == <<"X", "Y", "Z", "W", "V">>
ReportDurations == {0} \cup {100 * k : k \in 1..MaxDurSteps}
ReportResults == {<<1>>, <<1, 2>>}

InitReport ==
    /\ \E n \in 1..MaxProducts :
          \E time \in [1..n -> ReportDurations], result \in [1..n -> ReportResults] :
             products = [i \in 1..n |-> Product(ReportNames[i], time[i], result[i])]
    /\ a = <<>> /\ b = <<>>
    /\ pc = "sort" /\ panic = "none"
    /\ taskState = [t \in Tasks |-> "done"]
    /\ slot = [t \in Tasks |-> <<>>]
    /\ table = NoTable /\ graph = NoGraph /\ equal = "unset"
    /\ call = NoCall

NextReport == Report

SpecReport == InitReport /\ [][NextReport]_vars

(***************************************************************************)
(* SpecIntersect: one call of intersect on drawn arguments                 *)
(***************************************************************************)
InitIntersect ==
    /\ call \in [method : Range(Methods),
                 big : Collections(MaxLen, MaxVal),
                 small : Collections(MaxLen, MaxVal),
                 returned : {FALSE}, result : {<<>>}]
    /\ a = <<>> /\ b = <<>>
    /\ pc = "call" /\ panic = "none"
    /\ taskState = [t \in Tasks |-> "pending"]
    /\ slot = [t \in Tasks |-> <<>>]
    /\ products = <<>>
    /\ table = NoTable /\ graph = NoGraph /\ equal = "unset"

CallIntersect ==
    /\ pc = "call"
    /\ ~call.returned
    /\ call' = [call EXCEPT !.returned = TRUE,
                            !.result = intersect(call.method, call.big, call.small)]
    /\ UNCHANGED <<a, b, pc, panic, taskState, slot, products, table, graph, equal>>

NextIntersect == CallIntersect

SpecIntersect == InitIntersect /\ [][NextIntersect]_vars

(***************************************************************************)
(* Properties                                                              *)
(***************************************************************************)
Count(s, x) == Cardinality({i \in DOMAIN s : s[i] = x})

Deduplicating == {"BTree", "Binary", "Hash"}

\* C1: for each strategy and every pair of arguments, empty ones included
\* and in either role, the result read as a set is the intersection of the
\* two arguments' element sets.
C1_ResultIsIntersection ==
    call.returned => Range(call.result) = Range(call.big) \cap Range(call.small)

C1_Witness ==
    /\ call.returned
    /\ call.method = "Binary"
    /\ Len(call.big) < Len(call.small)
    /\ Range(call.result) # {}
    /\ Range(call.result) # Range(call.big)

\* C3 as stated: on big = [2,2], small = [2] Squared emits 2 twice and
\* BTree, Binary and Hash each emit it exactly once.
C3_Original ==
    (call.returned /\ call.big = <<2, 2>> /\ call.small = <<2>>) =>
        /\ call.method = "Squared" => call.result = <<2, 2>>
        /\ call.method \in Deduplicating => call.result = <<2>>

\* C3 amended: Squared emits one element per matching (outer, inner)
\* pairing; BTree, Binary and Hash emit one element per element of the
\* first argument that occurs in the second.  On ([2,2], [2]) all four emit
\* 2 twice; on ([2], [2,2]) Squared emits it twice and the other three once.
C3_EmissionsPerDriverElement ==
    call.returned =>
        LET pairings == {p \in (DOMAIN call.big) \X (DOMAIN call.small) :
                            call.big[p[1]] = call.small[p[2]]}
            matched == {i \in DOMAIN call.big : call.big[i] \in Range(call.small)}
        IN  /\ call.method = "Squared" => Len(call.result) = Cardinality(pairings)
            /\ call.method \in Deduplicating => Len(call.result) = Cardinality(matched)
            /\ (call.big = <<2, 2>> /\ call.small = <<2>>
                /\ call.method \in Deduplicating \cup {"Squared"})
                  => call.result = <<2, 2>>
            /\ (call.big = <<2>> /\ call.small = <<2, 2>>) =>
                  /\ call.method = "Squared" => call.result = <<2, 2>>
                  /\ call.method \in Deduplicating => call.result = <<2>>

C3_Witness ==
    /\ call.returned
    /\ call.method = "Squared"
    /\ call.big = <<2>> /\ call.small = <<2, 2>>
    /\ call.result = <<2, 2>>

\* C9: SquaredBreak, BTree, Binary and Hash return the elements of big that
\* occur in small, in big's order and with big's multiplicities, so never
\* more than len(big) of them; Squared returns that sequence exactly when
\* no value repeated in small occurs in big.
C9_SameSequence ==
    call.returned =>
        LET kept == SelectSeq(call.big, LAMBDA x : x \in Range(call.small))
            repeated == \E x \in Range(call.big) : Count(call.small, x) > 1
        IN  IF call.method = "Squared"
            THEN (call.result = kept) <=> ~repeated
            ELSE call.result = kept /\ Len(call.result) <= Len(call.big)

C9_Witness ==
    /\ call.returned
    /\ call.method = "BTree"
    /\ call.big = <<2, 1, 2>>
    /\ call.result = <<2, 1, 2>>

\* C2: when the result collections of all measurements hold the same
\* elements with the same multiplicities, in any order, the printed "all
\* values are equal" is true.
C2_OrderIndependent ==
    (/\ pc = "done"
     /\ \A i, j \in DOMAIN products :
           \A x \in Range(products[i].result) \cup Range(products[j].result) :
              Count(products[i].result, x) = Count(products[j].result, x))
    => equal = TRUE

\* C4: a clock that ran backwards during one measurement does not end the
\* run.
C4_ClockErrorNotFatal == ~(pc = "panicked" /\ panic = "clock")

\* C5: an unavailable terminal size does not end the run.
C5_SizeUnavailableNotFatal == ~(pc = "panicked" /\ panic = "size")

\* C6: whatever the interleaving, when sorting begins the list holds, for
\* each strategy, one measurement "<Name>" of (big, small) and one
\* "<Name> switched order" of (small, big), big and small being the two
\* distinct inputs with len(big) >= len(small); none is missing, duplicated
\* or still running, a finished task never runs again, and a and b do not
\* change.
MeasurementsComplete ==
    /\ \A t \in Tasks : taskState[t] = "done"
    /\ Len(products) = 2 * Len(Methods)
    /\ \E x, y \in {"a", "b"} :
          /\ x # y
          /\ Len(Deref(x)) >= Len(Deref(y))
          /\ \A k \in DOMAIN Methods :
                /\ Cardinality({i \in DOMAIN products :
                        products[i].name = Methods[k]}) = 1
                /\ Cardinality({i \in DOMAIN products :
                        products[i].name = Methods[k] \o " switched order"}) = 1
                /\ \A i \in DOMAIN products :
                      /\ products[i].name = Methods[k] =>
                            products[i].result
                               = intersect(Methods[k], Deref(x), Deref(y))
                      /\ products[i].name = Methods[k] \o " switched order" =>
                            products[i].result
                               = intersect(Methods[k], Deref(y), Deref(x))

C6_TwoMeasurementsPerStrategy ==
    [][/\ a' = a /\ b' = b
       /\ \A t \in Tasks : taskState[t] = "done" =>
             taskState'[t] = "done" /\ slot'[t] = slot[t]
       /\ pc' = "sort" => MeasurementsComplete']_vars

C6_Witness ==
    /\ pc = "sort"
    /\ Len(a) = Len(b) /\ a # b
    /\ products[5].result # products[6].result
    /\ Len(products) = 2 * Len(Methods)

\* C7: the table has one row per measurement, slowest first; each row after
\* the first shows prev.time / this.time to two decimals against the row
\* above it, the Total row the sum of the durations and first.time /
\* last.time.  X, Y, Z of 300, 200, 100 ns show 1.50x, 2.00x and Total 3.00x
\* of 600 ns.
NearestHundredth(cell, n, d) ==
    /\ cell.kind = "x"
    /\ 2 * (cell.value * d - 100 * n) <= d
    /\ 2 * (100 * n - cell.value * d) <= d

Nanos(cell) ==
    cell.frac + cell.int * (CASE cell.unit = "ns" -> 1
                              [] cell.unit = "us" -> 1000
                              [] cell.unit = "ms" -> 1000000
                              [] cell.unit = "s" -> 1000000000)

RECURSIVE SumTimes(_, _)
SumTimes(ps, i) == IF i > Len(ps) THEN 0 ELSE ps[i].time + SumTimes(ps, i + 1)

C7_TableRows ==
    /\ pc \in {"graph", "validate", "done"} => table.printed
    /\ table.printed =>
        /\ Len(table.rows) = Len(products)
        /\ \A i \in DOMAIN products :
              /\ table.rows[i].name = products[i].name
              /\ Nanos(table.rows[i].time) = products[i].time
              /\ i > 1 =>
                    /\ products[i - 1].time >= products[i].time
                    /\ table.rows[i].vs = products[i - 1].name
                    /\ products[i].time > 0 =>
                          NearestHundredth(table.rows[i].faster,
                                           products[i - 1].time, products[i].time)
        /\ table.total.name = "Total"
        /\ Nanos(table.total.time) = SumTimes(products, 1)
        /\ products[Len(products)].time > 0 =>
              NearestHundredth(table.total.faster,
                               products[1].time, products[Len(products)].time)
        /\ (/\ Len(products) = 3
            /\ \A i \in 1..3 : products[i].time = 100 * (4 - i)) =>
              /\ table.rows[2].faster = [kind |-> "x", value |-> 150]
              /\ table.rows[3].faster = [kind |-> "x", value |-> 200]
              /\ table.total.faster = [kind |-> "x", value |-> 300]
              /\ table.total.time = [int |-> 600, frac |-> 0, unit |-> "ns"]

C7_Witness ==
    /\ table.printed
    /\ Len(products) = 3
    /\ \A i \in 1..3 : products[i].time = 100 * (4 - i)
    /\ products[1].name = "X" /\ products[2].name = "Y" /\ products[3].name = "Z"
    /\ table.rows[2].faster.value = 150

\* C8: when exactly one measurement's result holds an element that no other
\* measurement's result holds, the equality check completes and prints
\* false, wherever the sort put that measurement.
Spurious(ps, i) ==
    /\ Len(ps) >= 2
    /\ \E x \in Range(ps[i].result) :
          \A j \in DOMAIN ps : j # i => x \notin Range(ps[j].result)

C8_SpuriousElementReported ==
    [][(pc = "validate" /\ \E i \in DOMAIN products : Spurious(products, i))
          => (pc' = "done" /\ equal' = FALSE /\ panic' = "none")]_vars

C8_Witness ==
    /\ pc = "done"
    /\ Len(products) = 3
    /\ Spurious(products, 3)
    /\ equal = FALSE

\* C10: no subtraction of the reporter underflows: the table's time
\* differences are not negative, and neither is cols - max_name_len - 2 for
\* a terminal of cols >= 1 columns.
C10_NoUnderflow ==
    /\ panic # "duration"
    /\ table.printed =>
          /\ \A i \in 2..Len(table.rows) : table.rows[i].diff.value >= 0
          /\ table.total.diff.value >= 0
    /\ graph.cols >= 1 => graph.cols - max_name_len(products) - 2 >= 0

=============================================================================
